---------------------------- MODULE Spec2Model ----------------------------
(***************************************************************************)
(* The Orchestrator of OvenMediaEngine                                     *)
(* (src/projects/orchestrator/orchestrator.cpp): the module registry, the  *)
(* application table with its id allocator, the origin map and the pull    *)
(* coordinator.                                                            *)
(*                                                                         *)
(* Every public operation takes its locks on entry and keeps them until it *)
(* returns (CreateApplication, DeleteApplication and RequestPullStream all *)
(* hold _modules_mutex and _app_map_mutex), so each public operation is    *)
(* one atomic action here.  Module callbacks are external: their return    *)
(* values are inputs of the action that calls them.                        *)
(*                                                                         *)
(* ov::String values are sequences of one-character strings, so that       *)
(* HasPrefix, Substring, Prepend, Append and LowerCaseString are computed. *)
(*                                                                         *)
(* application_id_t is uint32_t in the source; the model keeps the         *)
(* arithmetic (increment modulo the width, the sentinel at the top) on a   *)
(* narrower range: MaxIdValue stands for 2^32 - 1.                         *)
(***************************************************************************)
EXTENDS Integers, Sequences, FiniteSets, TLC

VARIABLES
    modules,              \* _modules: registration-ordered <<type, module>>
    module_map,           \* _module_map: type -> list of modules
    app_map,              \* _app_map: id -> info::Application
    last_application_id,  \* _last_application_id
    origin_list,          \* _origin_list
    last,                 \* the public call that returned last, and its result
    calls,                \* the module callbacks that call made, in order
    entry,                \* the application table and id counter when that call began
    pc,                   \* per thread: the public call it is in, and where
    mutex,                \* _modules_mutex, _app_map_mutex, _origin_map_mutex: the owner
    notified              \* the last table change and the notifications since

vars == <<modules, module_map, app_map, last_application_id, origin_list,
          last, calls, entry, pc, mutex, notified>>

\* What the threads add to the state.
threadVars == <<pc, mutex, notified>>

\* What the record of the last returned call adds to the state.
callVars == <<last, calls, entry>>

---------------------------------------------------------------------------
(* Bounds of the model *)

\* The largest value of application_id_t (std::numeric_limits<uint32_t>::max()
\* in the source).
MaxIdValue == 4

\* RegisterModule is not taken once it has succeeded this many times (the
\* per-kind lists, which UnregisterModule never shortens, hold one entry per
\* successful registration).
MaxRegistrations == 2

---------------------------------------------------------------------------
(* info::Application and the id constants *)

InvalidApplicationId == MaxIdValue

MinApplicationId == 0

MaxApplicationId == InvalidApplicationId - 1

\* uint32_t arithmetic wraps modulo 2^32; here modulo MaxIdValue + 1.
IdModulus == MaxIdValue + 1

ApplicationIds == 0 .. MaxIdValue

Application(app_id, name) == [id |-> app_id, name |-> name]

\* info::Application::GetInvalidApplication(): the default-constructed one.
InvalidApplication == Application(InvalidApplicationId, <<>>)

IsValid(app_info) == app_info.id # InvalidApplicationId

\* The application names callers use.
AppNames == { <<"a">>, <<"b">> }

\* The stream names callers use.
StreamNames == { <<"s">>, <<"s", "o">> }

---------------------------------------------------------------------------
(* Modules *)

\* The module objects of the host: one OVT provider and one publisher.
ModuleIds == { "ovt_provider", "publisher" }

\* A null std::shared_ptr<OrchestratorModuleInterface>.
NullModule == "nullptr"

ModuleTypes == { "Provider", "Publisher" }

GetModuleType(m) == IF m = "ovt_provider" THEN "Provider" ELSE "Publisher"

GetProviderType(m) == IF m = "ovt_provider" THEN "Ovt" ELSE "None"

Module(type, m) == [type |-> type, module |-> m]

Results == { "Succeeded", "Failed", "Exists", "NotExists" }

---------------------------------------------------------------------------
(* Sequence helpers *)

Min(S) == CHOOSE x \in S : \A y \in S : x <= y

\* ov::String::HasPrefix
HasPrefix(s, p) == Len(p) <= Len(s) /\ SubSeq(s, 1, Len(p)) = p

\* ov::String::Substring(start): the rest of the string from offset start
Substring(s, start) == SubSeq(s, start + 1, Len(s))

LowerChar(c) ==
    CASE c = "O" -> "o"
      [] c = "V" -> "v"
      [] c = "T" -> "t"
      [] OTHER -> c

\* ov::String::LowerCaseString
LowerCaseString(s) == [i \in 1 .. Len(s) |-> LowerChar(s[i])]

---------------------------------------------------------------------------
(* Application table: orchestrator.cpp 106-122 and 262-414 *)

\* Orchestrator::GetNextAppId.  The loop is unrolled IdModulus times: after
\* that many steps every counter value has been tried, and a loop that has
\* not returned by then never returns (terminates = FALSE).
RECURSIVE GetNextAppIdLoop(_, _, _)
GetNextAppIdLoop(counter, map, fuel) ==
    LET inc == (counter + 1) % IdModulus
        cur == IF inc = MaxApplicationId THEN MinApplicationId ELSE inc
    IN  IF cur \notin DOMAIN map
        THEN [terminates |-> TRUE, id |-> cur, last_application_id |-> cur]
        ELSE IF fuel = 0
        THEN [terminates |-> FALSE, id |-> cur, last_application_id |-> cur]
        ELSE GetNextAppIdLoop(cur, map, fuel - 1)

\* GetNextAppId without the wrap before the sentinel: the counter runs
\* through every value of the type.
RECURSIVE GetNextAppId_NoWrapLoop(_, _, _)
GetNextAppId_NoWrapLoop(counter, map, fuel) ==
    LET cur == (counter + 1) % IdModulus
    IN  IF cur \notin DOMAIN map
        THEN [terminates |-> TRUE, id |-> cur, last_application_id |-> cur]
        ELSE IF fuel = 0
        THEN [terminates |-> FALSE, id |-> cur, last_application_id |-> cur]
        ELSE GetNextAppId_NoWrapLoop(cur, map, fuel - 1)

GetNextAppId_NoWrap(counter, map) ==
    GetNextAppId_NoWrapLoop(counter, map, IdModulus)

GetNextAppId(counter, map) == GetNextAppIdLoop(counter, map, IdModulus)

\* std::map::emplace: inserts only when the key is absent.
Emplace(map, app_info) ==
    IF app_info.id \in DOMAIN map
    THEN map
    ELSE [i \in DOMAIN map \cup {app_info.id} |->
             IF i = app_info.id THEN app_info ELSE map[i]]

\* std::map::erase(key)
Erase(map, app_id) == [i \in DOMAIN map \ {app_id} |-> map[i]]

\* Whether the table holds the descriptor.
InTable(map, app_info) ==
    app_info.id \in DOMAIN map /\ map[app_info.id] = app_info

\* One callback of a module, as recorded in calls: the function, the
\* module, the descriptor passed, the value returned, and whether the table
\* (map) held the descriptor when the call was made.
Call(fn, m, app_info, ret, map) ==
    [fn |-> fn, module |-> m, app |-> app_info, ret |-> ret,
     in_table |-> InTable(map, app_info),
     stream |-> <<>>, url_list |-> <<>>]

\* The loop of CreateApplicationInternal (lines 283-296): modules are
\* notified in registration order up to and including the first that
\* returns false.  cr[m] is what m->OnCreateApplication returns.
RECURSIVE NotifyModulesForCreateEvent(_, _, _, _)
NotifyModulesForCreateEvent(mods, app_info, cr, map) ==
    IF mods = <<>>
    THEN [calls |-> <<>>, succeeded |-> TRUE]
    ELSE LET m == Head(mods).module
             c == Call("OnCreateApplication", m, app_info, cr[m], map)
         IN  IF cr[m]
             THEN LET rest == NotifyModulesForCreateEvent(Tail(mods), app_info,
                                                          cr, map)
                  IN  [calls |-> <<c>> \o rest.calls,
                       succeeded |-> rest.succeeded]
             ELSE [calls |-> <<c>>, succeeded |-> FALSE]

\* NotifyModulesForDeleteEvent leaving the loop at the first false return.
RECURSIVE NotifyModulesForDeleteEvent_BreakOnFailure(_, _, _, _)
NotifyModulesForDeleteEvent_BreakOnFailure(mods, app_info, dr, map) ==
    IF mods = <<>>
    THEN [calls |-> <<>>, result |-> "Succeeded"]
    ELSE LET m == Head(mods).module
             c == Call("OnDeleteApplication", m, app_info, dr[m], map)
             rest == NotifyModulesForDeleteEvent_BreakOnFailure(
                         Tail(mods), app_info, dr, map)
         IN  IF dr[m]
             THEN [calls |-> <<c>> \o rest.calls, result |-> rest.result]
             ELSE [calls |-> <<c>>, result |-> "Failed"]

\* Orchestrator::NotifyModulesForDeleteEvent: every module is notified; a
\* false return sets the result to Failed and the loop goes on.
\* dr[m] is what m->OnDeleteApplication returns; map is the table at the
\* time of the calls.
RECURSIVE NotifyModulesForDeleteEvent(_, _, _, _)
NotifyModulesForDeleteEvent(mods, app_info, dr, map) ==
    IF mods = <<>>
    THEN [calls |-> <<>>, result |-> "Succeeded"]
    ELSE LET m == Head(mods).module
             c == Call("OnDeleteApplication", m, app_info, dr[m], map)
             rest == NotifyModulesForDeleteEvent(Tail(mods), app_info, dr, map)
         IN  [calls |-> <<c>> \o rest.calls,
              result |-> IF dr[m] THEN rest.result ELSE "Failed"]

\* Orchestrator::DeleteApplicationInternal(app_id)
DeleteApplicationInternal(map, mods, app_id, dr) ==
    IF app_id \notin DOMAIN map
    THEN [app_map |-> map, calls |-> <<>>, result |-> "NotExists"]
    ELSE LET app_info == map[app_id]
             erased == Erase(map, app_id)
             n == NotifyModulesForDeleteEvent(mods, app_info, dr, erased)
         IN  [app_map |-> erased, calls |-> n.calls, result |-> n.result]

\* CreateApplicationInternal rolling back only the modules of created_list
\* (those whose OnCreateApplication returned true).
CreateApplicationInternal_RollbackCreatedOnly(map, mods, app_info, cr, dr) ==
    IF \E i \in DOMAIN map : map[i].name = app_info.name
    THEN [app_map |-> map, calls |-> <<>>, result |-> "Exists"]
    ELSE LET inserted == Emplace(map, app_info)
             n == NotifyModulesForCreateEvent(mods, app_info, cr, inserted)
             created_list == SubSeq(mods, 1, Len(n.calls) - 1)
         IN  IF n.succeeded
             THEN [app_map |-> inserted, calls |-> n.calls,
                   result |-> "Succeeded"]
             ELSE LET d == DeleteApplicationInternal(inserted, created_list,
                                                     app_info.id, dr)
                  IN  [app_map |-> d.app_map, calls |-> n.calls \o d.calls,
                       result |-> d.result]

\* CreateApplicationInternal without the scan for an existing name.
CreateApplicationInternal_NoNameCheck(map, mods, app_info, cr, dr) ==
    LET inserted == Emplace(map, app_info)
        n == NotifyModulesForCreateEvent(mods, app_info, cr, inserted)
    IN  IF n.succeeded
        THEN [app_map |-> inserted, calls |-> n.calls, result |-> "Succeeded"]
        ELSE LET d == DeleteApplicationInternal(inserted, mods, app_info.id, dr)
             IN  [app_map |-> d.app_map, calls |-> n.calls \o d.calls,
                  result |-> d.result]

\* Orchestrator::CreateApplicationInternal(const info::Application &)
CreateApplicationInternal(map, mods, app_info, cr, dr) ==
    IF \E i \in DOMAIN map : map[i].name = app_info.name
    THEN [app_map |-> map, calls |-> <<>>, result |-> "Exists"]
    ELSE LET inserted == Emplace(map, app_info)
             n == NotifyModulesForCreateEvent(mods, app_info, cr, inserted)
         IN  IF n.succeeded
             THEN [app_map |-> inserted, calls |-> n.calls,
                   result |-> "Succeeded"]
             ELSE LET d == DeleteApplicationInternal(inserted, mods,
                                                     app_info.id, dr)
                  IN  [app_map |-> d.app_map, calls |-> n.calls \o d.calls,
                       result |-> d.result]

\* Orchestrator::GetApplicationInternal(name): the first entry, in key
\* order, with that name.
GetApplicationInternal(map, app_name) ==
    LET hits == {i \in DOMAIN map : map[i].name = app_name}
    IN  IF hits = {} THEN InvalidApplication ELSE map[Min(hits)]

\* Orchestrator::GetApplicationInternal(id)
GetApplicationInternalById(map, app_id) ==
    IF app_id \in DOMAIN map THEN map[app_id] ELSE InvalidApplication

---------------------------------------------------------------------------
(* Origin map and provider lookup: orchestrator.cpp 14-37 and 124-260 *)

Origin(location, scheme, url_list) ==
    [location |-> location, scheme |-> scheme, url_list |-> url_list]

\* A cfg::Origin: <Location>, and <Pass> with its <Scheme> and <Url>s.
CfgOrigin(location, scheme, urls) ==
    [location |-> location, pass |-> [scheme |-> scheme, urls |-> urls]]

\* The cfg::Origins values PrepareOriginMap is called with.
OriginConfigs ==
    { << CfgOrigin(<<"/", "a", "/", "s", "o">>, <<"o", "v", "t">>, <<>>),
         CfgOrigin(<<"/", "a", "/", "s">>, <<"O", "V", "T">>, << <<"h">> >>),
         CfgOrigin(<<"/", "b">>, <<"f", "t", "p">>, << <<"f">> >>) >>,
      << CfgOrigin(<<"/", "b", "/", "s">>, <<"r", "t", "m", "p">>, << <<"r">> >>),
         CfgOrigin(<<"/">>, <<"o", "v", "t">>, << <<"h">>, <<"k">> >>) >> }

\* Orchestrator::Origin's constructor from a cfg::Origin: the location, the
\* scheme and the URLs are copied as they are.
MakeOrigin(cfg) == Origin(cfg.location, cfg.pass.scheme, cfg.pass.urls)

\* The loop of PrepareOriginMap (lines 25-36), run on the cleared list.
RECURSIVE AppendOrigins(_, _)
AppendOrigins(list, cfgs) ==
    IF cfgs = <<>>
    THEN list
    ELSE AppendOrigins(Append(list, MakeOrigin(Head(cfgs))), Tail(cfgs))

\* A null std::shared_ptr<Origin>.
NullOrigin == Origin(<<>>, <<>>, <<>>)

\* The loop over origin->url_list (lines 236-253).
RECURSIVE MakeUrlList(_, _, _)
MakeUrlList(urls, scheme, remaining_part) ==
    IF urls = <<>>
    THEN <<>>
    ELSE << scheme \o <<":", "/", "/">> \o Head(urls) \o remaining_part >>
         \o MakeUrlList(Tail(urls), scheme, remaining_part)

\* GetUrlListForLocation going on to the next rule when the matching rule
\* has no URL.
RECURSIVE FindOrigin_SkipEmptyRules(_, _)
FindOrigin_SkipEmptyRules(origins, location) ==
    IF origins = <<>>
    THEN [origin |-> NullOrigin, found |-> FALSE, url_list |-> <<>>]
    ELSE LET origin == Head(origins)
         IN  IF HasPrefix(location, origin.location) /\ origin.url_list # <<>>
             THEN [origin |-> origin, found |-> TRUE,
                   url_list |-> MakeUrlList(origin.url_list, origin.scheme,
                                   Substring(location, Len(origin.location)))]
             ELSE FindOrigin_SkipEmptyRules(Tail(origins), location)

\* Orchestrator::GetUrlListForLocation: the first rule whose location is a
\* prefix of the requested location decides.
RECURSIVE FindOrigin(_, _)
FindOrigin(origins, location) ==
    IF origins = <<>>
    THEN [origin |-> NullOrigin, found |-> FALSE, url_list |-> <<>>]
    ELSE LET origin == Head(origins)
         IN  IF HasPrefix(location, origin.location)
             THEN LET remaining_part ==
                          Substring(location, Len(origin.location))
                      url_list == MakeUrlList(origin.url_list, origin.scheme,
                                              remaining_part)
                  IN  IF Len(url_list) > 0
                      THEN [origin |-> origin, found |-> TRUE,
                            url_list |-> url_list]
                      ELSE [origin |-> NullOrigin, found |-> FALSE,
                            url_list |-> url_list]
             ELSE FindOrigin(Tail(origins), location)

GetUrlListForLocation(origins, app_name, stream_name) ==
    FindOrigin(origins, <<"/">> \o app_name \o <<"/">> \o stream_name)

\* The scheme table of GetProviderForScheme (lines 132-148).
ProviderTypeForScheme(scheme) ==
    LET lower_scheme == LowerCaseString(scheme)
    IN  CASE lower_scheme = <<"r", "t", "m", "p">> -> "Rtmp"
          [] lower_scheme = <<"r", "t", "s", "p">> -> "Rtsp"
          [] lower_scheme = <<"o", "v", "t">> -> "Ovt"
          [] OTHER -> "None"

\* Orchestrator::GetProviderForScheme / GetProviderModuleForScheme: the
\* first registered Provider module of the scheme's type, or NullModule.
GetProviderModuleForScheme(mods, scheme) ==
    LET type == ProviderTypeForScheme(scheme)
        hits == {i \in 1 .. Len(mods) :
                    /\ mods[i].type = "Provider"
                    /\ GetProviderType(mods[i].module) = type}
    IN  IF type = "None" \/ hits = {}
        THEN NullModule
        ELSE mods[Min(hits)].module

---------------------------------------------------------------------------
(* Pull coordinator: orchestrator.cpp 489-562 *)

\* RollbackIfNeeded with the rollback left out.
RollbackIfNeeded_Skipped(result, table, mods, app_info, dr) ==
    [app_map |-> table, calls |-> <<>>]

\* The switch after a failed PullStream (lines 543-559): an application
\* created for this pull is deleted again, an existing one is kept.  Failed
\* and NotExists only assert.
RollbackIfNeeded(result, table, mods, app_info, dr) ==
    IF result = "Succeeded"
    THEN LET d == DeleteApplicationInternal(table, mods, app_info.id, dr)
         IN  [app_map |-> d.app_map, calls |-> d.calls]
    ELSE [app_map |-> table, calls |-> <<>>]

\* Orchestrator::RequestPullStreamForLocation.  pr is what the provider's
\* PullStream returns.  create_result is the local variable result
\* ("None" while it is unset); pulled says whether PullStream was called.
RequestPullStreamForLocation(map, counter, mods, origins, app_name, stream_name, cr, dr, pr) ==
    LET found == GetUrlListForLocation(origins, app_name, stream_name)
        provider_module == GetProviderModuleForScheme(mods, found.origin.scheme)
        existing == GetApplicationInternal(map, app_name)
        next == GetNextAppId(counter, map)
        created == Application(next.id, app_name)
        c == CreateApplicationInternal(map, mods, created, cr, dr)
        unchanged == [terminates |-> TRUE, app_map |-> map,
                      last_application_id |-> counter, calls |-> <<>>,
                      create_result |-> "None", pulled |-> FALSE,
                      returned |-> FALSE]
    IN  IF ~found.found
        THEN unchanged
        ELSE IF provider_module = NullModule
        THEN unchanged
        ELSE LET result == IF IsValid(existing) THEN "Exists" ELSE c.result
                 app_info == IF IsValid(existing) THEN existing ELSE created
                 table == IF IsValid(existing) THEN map ELSE c.app_map
                 made == IF IsValid(existing) THEN <<>> ELSE c.calls
                 count == IF IsValid(existing) THEN counter
                          ELSE next.last_application_id
                 pull == [Call("PullStream", provider_module, app_info, pr,
                               table)
                          EXCEPT !.stream = stream_name,
                                 !.url_list = found.url_list]
                 rollback == RollbackIfNeeded(result, table, mods, app_info, dr)
             IN  IF ~IsValid(existing) /\ ~next.terminates
                 THEN [unchanged EXCEPT !.terminates = FALSE]
                 ELSE IF ~IsValid(existing) /\ (result = "Failed" \/ result # "Succeeded")
                 THEN [terminates |-> TRUE, app_map |-> table,
                       last_application_id |-> count, calls |-> made,
                       create_result |-> result, pulled |-> FALSE,
                       returned |-> FALSE]
                 ELSE IF pr
                 THEN [terminates |-> TRUE, app_map |-> table,
                       last_application_id |-> count,
                       calls |-> made \o <<pull>>,
                       create_result |-> result, pulled |-> TRUE,
                       returned |-> TRUE]
                 ELSE [terminates |-> TRUE, app_map |-> rollback.app_map,
                       last_application_id |-> count,
                       calls |-> made \o <<pull>> \o rollback.calls,
                       create_result |-> result, pulled |-> TRUE,
                       returned |-> FALSE]

---------------------------------------------------------------------------
(* Module registry: orchestrator.cpp 39-104 *)

\* _module_map[type], without inserting
KindList(mmap, type) == IF type \in DOMAIN mmap THEN mmap[type] ELSE <<>>

\* std::map::operator[]: inserts an empty list when the key is absent.
Touch(mmap, type) ==
    IF type \in DOMAIN mmap THEN mmap ELSE (type :> <<>>) @@ mmap

\* The number of entries of all per-kind lists.
RECURSIVE SumLen(_, _)
SumLen(mmap, types) ==
    IF types = {}
    THEN 0
    ELSE LET type == CHOOSE t \in types : TRUE
         IN  Len(mmap[type]) + SumLen(mmap, types \ {type})

Registrations(mmap) == SumLen(mmap, DOMAIN mmap)

IsRegistered(mods, m) == \E i \in 1 .. Len(mods) : mods[i].module = m

\* Orchestrator::RegisterModule
RegisterModule(mods, mmap, m) ==
    IF m = NullModule
    THEN [modules |-> mods, module_map |-> mmap, returned |-> FALSE]
    ELSE IF IsRegistered(mods, m)
    THEN [modules |-> mods, module_map |-> mmap, returned |-> FALSE]
    ELSE LET type == GetModuleType(m)
             touched == Touch(mmap, type)
         IN  [modules |-> Append(mods, Module(type, m)),
              module_map |-> [touched EXCEPT ![type] = Append(@, m)],
              returned |-> TRUE]

\* Orchestrator::UnregisterModule.  Line 94 reads info->type after
\* _modules.erase(info) has invalidated info: stale_type is the value that
\* read yields, and _module_map[stale_type] inserts the key when absent.
\* The per-kind list itself is left as it was.
UnregisterModule(mods, mmap, m, stale_type) ==
    IF m = NullModule
    THEN [modules |-> mods, module_map |-> mmap, returned |-> FALSE]
    ELSE IF ~IsRegistered(mods, m)
    THEN [modules |-> mods, module_map |-> mmap, returned |-> FALSE]
    ELSE LET at == Min({i \in 1 .. Len(mods) : mods[i].module = m})
         IN  [modules |-> SubSeq(mods, 1, at - 1)
                          \o SubSeq(mods, at + 1, Len(mods)),
              module_map |-> Touch(mmap, stale_type),
              returned |-> TRUE]

---------------------------------------------------------------------------
(* Threads and locks: the lock_guards of orchestrator.cpp *)

\* The threads of the host that call the orchestrator.
Threads == {"t1", "t2"}

NoThread == "none"

Mutexes == {"_modules_mutex", "_app_map_mutex", "_origin_map_mutex"}

\* DeleteApplication without its two lock_guards.
LocksOf_DeleteApplicationUnlocked(op) ==
    CASE op = "RegisterModule" -> <<"_modules_mutex">>
      [] op = "UnregisterModule" -> <<"_modules_mutex">>
      [] op = "PrepareOriginMap" -> <<"_origin_map_mutex">>
      [] op = "CreateApplication" -> <<"_modules_mutex", "_app_map_mutex">>
      [] op = "DeleteApplication" -> <<>>
      [] op = "GetApplication" -> <<"_app_map_mutex">>
      [] op = "GetApplicationById" -> <<"_app_map_mutex">>
      [] op = "RequestPullStream" ->
             <<"_modules_mutex", "_app_map_mutex", "_origin_map_mutex">>

\* PrepareOriginMap without its lock_guard.
LocksOf_PrepareOriginMapUnlocked(op) ==
    CASE op = "RegisterModule" -> <<"_modules_mutex">>
      [] op = "UnregisterModule" -> <<"_modules_mutex">>
      [] op = "PrepareOriginMap" -> <<>>
      [] op = "CreateApplication" -> <<"_modules_mutex", "_app_map_mutex">>
      [] op = "DeleteApplication" -> <<"_modules_mutex", "_app_map_mutex">>
      [] op = "GetApplication" -> <<"_app_map_mutex">>
      [] op = "GetApplicationById" -> <<"_app_map_mutex">>
      [] op = "RequestPullStream" ->
             <<"_modules_mutex", "_app_map_mutex", "_origin_map_mutex">>

\* The mutexes each public operation locks, in the order of its
\* std::lock_guard declarations; all are released when it returns.
LocksOf(op) ==
    CASE op = "RegisterModule" -> <<"_modules_mutex">>
      [] op = "UnregisterModule" -> <<"_modules_mutex">>
      [] op = "PrepareOriginMap" -> <<"_origin_map_mutex">>
      [] op = "CreateApplication" -> <<"_modules_mutex", "_app_map_mutex">>
      [] op = "DeleteApplication" -> <<"_modules_mutex", "_app_map_mutex">>
      [] op = "GetApplication" -> <<"_app_map_mutex">>
      [] op = "GetApplicationById" -> <<"_app_map_mutex">>
      [] op = "RequestPullStream" ->
             <<"_modules_mutex", "_app_map_mutex", "_origin_map_mutex">>

\* The first statement of each public operation after its lock_guards.
Body(op) ==
    CASE op = "RegisterModule" -> "RegisterModule"
      [] op = "UnregisterModule" -> "UnregisterModule"
      [] op = "PrepareOriginMap" -> "clear"
      [] op = "CreateApplication" -> "GetNextAppId"
      [] op = "DeleteApplication" -> "DeleteApplicationInternal"
      [] op = "GetApplication" -> "GetApplicationInternal"
      [] op = "GetApplicationById" -> "GetApplicationInternal"
      [] op = "RequestPullStream" -> "GetUrlListForLocation"

\* A thread that is in no call of the orchestrator, after done calls.
\* The other fields are the arguments and locals of the call in progress:
\* app is app_info, idx the position of the loop over _modules or over the
\* configured origins, result the local Result, phase the part of
\* RequestPullStreamForLocation the thread is in, seen the _origin_list it
\* resolved against; erased says that the table entry the caller's
\* reference points to has been erased, and read what the caller read
\* through that reference.
Idle(done) ==
    [op |-> "none", at |-> "idle", done |-> done, held |-> 0,
     app_name |-> <<>>, stream_name |-> <<>>, app |-> InvalidApplication,
     module |-> NullModule, origins |-> <<>>, idx |-> 0, result |-> "None",
     phase |-> "none", seen |-> <<>>, erased |-> FALSE, read |-> "none"]

\* No table change has been made yet.
NothingNotified ==
    [thread |-> NoThread, fn |-> "None", app |-> InvalidApplication,
     order |-> <<>>, notes |-> <<>>]

---------------------------------------------------------------------------
(* The public operations, one action each *)

Bool(b) == IF b THEN "true" ELSE "false"

NoName == <<>>

\* The record of a returned call.
Returned(op, app_name, stream_name, app_id, m, result) ==
    [op |-> op, app_name |-> app_name, stream_name |-> stream_name,
     app_id |-> app_id, module |-> m, result |-> result,
     create_result |-> "None"]

\* The application table and the id counter on entry of a call.
Snapshot ==
    [app_map |-> app_map, last_application_id |-> last_application_id]

\* A callback's return value is an input only of a call that is made: the
\* values that no call of the operation consumed are fixed at TRUE, so that
\* one run of the code is one step of the model.
Consumed(cr, dr, pr, made) ==
    LET Made(fn, m) == \E i \in 1 .. Len(made) :
                           made[i].fn = fn /\ made[i].module = m
    IN  /\ \A m \in ModuleIds : ~cr[m] => Made("OnCreateApplication", m)
        /\ \A m \in ModuleIds : ~dr[m] => Made("OnDeleteApplication", m)
        /\ ~pr => \E i \in 1 .. Len(made) : made[i].fn = "PullStream"

AllTrue == [m \in ModuleIds |-> TRUE]

\* PrepareOriginMap has no return statement: the caller reads an
\* indeterminate bool, garbage here.
DoPrepareOriginMap(origins, garbage) ==
    /\ origin_list' = AppendOrigins(<<>>, origins)
    /\ last' = Returned("PrepareOriginMap", NoName, NoName,
                        InvalidApplicationId, NullModule, Bool(garbage))
    /\ calls' = <<>>
    /\ entry' = Snapshot
    /\ UNCHANGED <<modules, module_map, app_map, last_application_id>>
    /\ UNCHANGED threadVars

DoRegisterModule(m) ==
    LET r == RegisterModule(modules, module_map, m)
    IN  /\ r.returned => Registrations(module_map) < MaxRegistrations
        /\ modules' = r.modules
        /\ module_map' = r.module_map
        /\ last' = Returned("RegisterModule", NoName, NoName,
                            InvalidApplicationId, m, Bool(r.returned))
        /\ calls' = <<>>
        /\ entry' = Snapshot
        /\ UNCHANGED <<app_map, last_application_id, origin_list>>
        /\ UNCHANGED threadVars

DoUnregisterModule(m, stale_type) ==
    LET r == UnregisterModule(modules, module_map, m, stale_type)
    IN  /\ modules' = r.modules
        /\ module_map' = r.module_map
        /\ last' = Returned("UnregisterModule", NoName, NoName,
                            InvalidApplicationId, m, Bool(r.returned))
        /\ calls' = <<>>
        /\ entry' = Snapshot
        /\ UNCHANGED <<app_map, last_application_id, origin_list>>
        /\ UNCHANGED threadVars

\* Orchestrator::CreateApplication(const cfg::Application &): the id is
\* allocated first (line 364), then CreateApplicationInternal runs.
DoCreateApplication(app_name, cr, dr) ==
    LET next == GetNextAppId(last_application_id, app_map)
        app_info == Application(next.id, app_name)
        r == CreateApplicationInternal(app_map, modules, app_info, cr, dr)
    IN  /\ next.terminates
        /\ Consumed(cr, dr, TRUE, r.calls)
        /\ app_map' = r.app_map
        /\ last_application_id' = next.last_application_id
        /\ last' = Returned("CreateApplication", app_name, NoName,
                            next.id, NullModule, r.result)
        /\ calls' = r.calls
        /\ entry' = Snapshot
        /\ UNCHANGED <<modules, module_map, origin_list>>
        /\ UNCHANGED threadVars

\* Orchestrator::DeleteApplication(const info::Application &): only the
\* descriptor's id is used.
DoDeleteApplication(app_id, dr) ==
    LET r == DeleteApplicationInternal(app_map, modules, app_id, dr)
    IN  /\ Consumed(AllTrue, dr, TRUE, r.calls)
        /\ app_map' = r.app_map
        /\ last' = Returned("DeleteApplication", NoName, NoName,
                            app_id, NullModule, r.result)
        /\ calls' = r.calls
        /\ entry' = Snapshot
        /\ UNCHANGED <<modules, module_map, last_application_id, origin_list>>
        /\ UNCHANGED threadVars

\* Orchestrator::RequestPullStream(application, stream)
DoRequestPullStream(app_name, stream_name, cr, dr, pr) ==
    LET r == RequestPullStreamForLocation(app_map, last_application_id,
                 modules, origin_list, app_name, stream_name, cr, dr, pr)
    IN  /\ r.terminates
        /\ Consumed(cr, dr, pr, r.calls)
        /\ app_map' = r.app_map
        /\ last_application_id' = r.last_application_id
        /\ last' = [Returned("RequestPullStream", app_name, stream_name,
                             InvalidApplicationId, NullModule,
                             Bool(r.returned))
                    EXCEPT !.create_result = r.create_result]
        /\ calls' = r.calls
        /\ entry' = Snapshot
        /\ UNCHANGED <<modules, module_map, origin_list>>
        /\ UNCHANGED threadVars

Init ==
    /\ modules = <<>>
    /\ module_map = <<>>
    /\ app_map = <<>>
    /\ last_application_id \in MinApplicationId .. MaxApplicationId - 1
    /\ origin_list = <<>>
    /\ last = Returned("Orchestrator", NoName, NoName, InvalidApplicationId,
                       NullModule, "true")
    /\ calls = <<>>
    /\ entry = [app_map |-> <<>>, last_application_id |-> last_application_id]
    /\ pc = [t \in Threads |-> Idle(0)]
    /\ mutex = [m \in Mutexes |-> NoThread]
    /\ notified = NothingNotified

Callbacks == [ModuleIds -> BOOLEAN]

\* What the registered modules return from OnCreateApplication: the create
\* loop stops at the first false, so at most one module returns false.
CreateReturns ==
    {cr \in Callbacks :
        /\ \A m \in ModuleIds : ~cr[m] => IsRegistered(modules, m)
        /\ \A m1, m2 \in ModuleIds : ~cr[m1] /\ ~cr[m2] => m1 = m2}

\* What the registered modules return from OnDeleteApplication, when the
\* operation can reach a delete notification at all.
DeleteReturns(reached) ==
    IF reached
    THEN {dr \in Callbacks : \A m \in ModuleIds : ~dr[m] => IsRegistered(modules, m)}
    ELSE {AllTrue}

\* The ids of the descriptors callers pass to DeleteApplication: those of
\* the table (GetApplication's results), the invalid descriptor, and the id
\* of the previous call (a descriptor kept after its application is gone).
DeleteIds == DOMAIN app_map \cup {InvalidApplicationId, last.app_id}

Next ==
    \/ \E origins \in OriginConfigs, garbage \in BOOLEAN :
           DoPrepareOriginMap(origins, garbage)
    \/ \E m \in ModuleIds \cup {NullModule} : DoRegisterModule(m)
    \/ \E m \in ModuleIds \cup {NullModule}, stale_type \in ModuleTypes :
           DoUnregisterModule(m, stale_type)
    \/ \E app_name \in AppNames, cr \in CreateReturns :
           \E dr \in DeleteReturns(cr # AllTrue) :
               DoCreateApplication(app_name, cr, dr)
    \/ \E app_id \in DeleteIds :
           \E dr \in DeleteReturns(app_id \in DOMAIN app_map) :
               DoDeleteApplication(app_id, dr)
    \/ \E app_name \in AppNames, stream_name \in StreamNames,
          cr \in CreateReturns, pr \in BOOLEAN :
           \E dr \in DeleteReturns(cr # AllTrue \/ ~pr) :
               DoRequestPullStream(app_name, stream_name, cr, dr, pr)

Spec == Init /\ [][Next]_vars

---------------------------------------------------------------------------
(* The id allocator on its own: orchestrator.cpp 106-122 *)

\* One name for every id GetNextAppId can hand out.
NameChars == <<"a", "b", "c", "d", "e", "f">>

AllocatorNames == {<<NameChars[i]>> : i \in 1 .. MaxApplicationId}

\* A call of GetNextAppId on the current table and counter.  When the loop
\* of lines 108-121 finds no free id it never leaves: the call does not
\* return, and the counter is wherever the loop last left it.
DoGetNextAppId ==
    LET next == GetNextAppId(last_application_id, app_map)
    IN  /\ last_application_id' = next.last_application_id
        /\ last' = Returned("GetNextAppId", NoName, NoName, next.id, NullModule,
                            IF next.terminates THEN "returned"
                            ELSE "never returns")
        /\ calls' = <<>>
        /\ entry' = Snapshot
        /\ UNCHANGED <<modules, module_map, app_map, origin_list>>
        /\ UNCHANGED threadVars

\* Applications are created and deleted with no module registered, and
\* GetNextAppId is called on every table and counter that this reaches.
AllocatorNext ==
    \/ \E app_name \in AllocatorNames :
           DoCreateApplication(app_name, AllTrue, AllTrue)
    \/ \E app_id \in DOMAIN app_map : DoDeleteApplication(app_id, AllTrue)
    \/ DoGetNextAppId

SpecAllocator == Init /\ [][AllocatorNext]_vars

---------------------------------------------------------------------------
(* The public operations run by concurrent threads, statement by statement *)

\* How many calls each thread makes.
MaxCalls == 1

\* The stream name the threads pull.
ThreadStreamNames == { <<"s">> }

\* One iteration of the arithmetic of GetNextAppId (lines 110-115).
NextCounter(counter) ==
    LET inc == (counter + 1) % IdModulus
    IN  IF inc = MaxApplicationId THEN MinApplicationId ELSE inc

\* The calls a thread can make on the current state.  DeleteApplication is
\* passed a descriptor of the table or the invalid one, GetApplication a
\* name or an id of the table.
Invocations ==
    LET call == [op |-> "none", app_name |-> <<>>, stream_name |-> <<>>,
                 app |-> InvalidApplication, module |-> NullModule,
                 origins |-> <<>>]
    IN  {[call EXCEPT !.op = "RegisterModule", !.module = m] :
            m \in ModuleIds \cup {NullModule}}
        \cup {[call EXCEPT !.op = "UnregisterModule", !.module = m] :
                 m \in ModuleIds \cup {NullModule}}
        \cup {[call EXCEPT !.op = "PrepareOriginMap", !.origins = o] :
                 o \in OriginConfigs}
        \cup {[call EXCEPT !.op = "CreateApplication", !.app_name = n] :
                 n \in AppNames}
        \cup {[call EXCEPT !.op = "DeleteApplication", !.app = a] :
                 a \in {app_map[i] : i \in DOMAIN app_map}
                       \cup {InvalidApplication}}
        \cup {[call EXCEPT !.op = "GetApplication", !.app_name = n] :
                 n \in AppNames}
        \cup {[call EXCEPT !.op = "GetApplicationById", !.app = app_map[i]] :
                 i \in DOMAIN app_map}
        \cup {[call EXCEPT !.op = "RequestPullStream", !.app_name = n,
                           !.stream_name = sn] :
                 n \in AppNames, sn \in ThreadStreamNames}

\* A thread enters a public operation.  RegisterModule and UnregisterModule
\* return false for a null module before they lock anything.
Invoke(t) ==
    /\ pc[t].at = "idle"
    /\ pc[t].done < MaxCalls
    /\ \E call \in Invocations :
           LET p == [Idle(pc[t].done) EXCEPT
                        !.op = call.op, !.app_name = call.app_name,
                        !.stream_name = call.stream_name, !.app = call.app,
                        !.module = call.module, !.origins = call.origins]
               null_module ==
                   /\ call.op \in {"RegisterModule", "UnregisterModule"}
                   /\ call.module = NullModule
           IN  pc' = [pc EXCEPT ![t] =
                         IF null_module
                         THEN [p EXCEPT !.at = "return", !.result = "false"]
                         ELSE IF LocksOf(call.op) = <<>>
                         THEN [p EXCEPT !.at = Body(call.op)]
                         ELSE [p EXCEPT !.at = "lock"]]
    /\ UNCHANGED <<modules, module_map, app_map, last_application_id,
                   origin_list, mutex, notified>>
    /\ UNCHANGED callVars

\* The next std::lock_guard of the operation: the thread waits until the
\* mutex is free and takes it.
Lock(t) ==
    LET locks == LocksOf(pc[t].op)
        m == locks[pc[t].held + 1]
    IN  /\ pc[t].at = "lock"
        /\ mutex[m] = NoThread
        /\ mutex' = [mutex EXCEPT ![m] = t]
        /\ pc' = [pc EXCEPT ![t].held = @ + 1,
                            ![t].at = IF pc[t].held + 1 = Len(locks)
                                      THEN Body(pc[t].op)
                                      ELSE "lock"]
        /\ UNCHANGED <<modules, module_map, app_map, last_application_id,
                       origin_list, notified>>
        /\ UNCHANGED callVars

\* The operation returns: its lock_guards release what the thread holds.
\* GetApplication leaves the caller with a reference (const
\* info::Application &) to what GetApplicationInternal returned.
Return(t) ==
    /\ pc[t].at = "return"
    /\ mutex' = [m \in Mutexes |-> IF mutex[m] = t THEN NoThread ELSE mutex[m]]
    /\ pc' = [pc EXCEPT ![t] =
                 IF pc[t].op \in {"GetApplication", "GetApplicationById"}
                 THEN [pc[t] EXCEPT !.at = "caller", !.held = 0]
                 ELSE Idle(pc[t].done + 1)]
    /\ UNCHANGED <<modules, module_map, app_map, last_application_id,
                   origin_list, notified>>
    /\ UNCHANGED callVars

\* A change of the application table by thread t, about which the modules
\* are going to be notified with fn; order is the registration order then.
Commit(t, fn, app_info) ==
    [thread |-> t, fn |-> fn, app |-> app_info,
     order |-> [i \in 1 .. Len(modules) |-> modules[i].module],
     notes |-> <<>>]

\* Thread t calls fn(app_info) on module m.
Note(t, fn, app_info, m) ==
    [notified EXCEPT !.notes = Append(@, [thread |-> t, fn |-> fn,
                                           app |-> app_info, module |-> m])]

\* Where a thread goes on when CreateApplicationInternal or
\* DeleteApplicationInternal has returned p.result: the public operation
\* returns it, or RequestPullStreamForLocation tests it (lines 522-529) or
\* returns false after its rollback (line 561).
Continue(p) ==
    IF p.op = "RequestPullStream"
    THEN IF p.phase = "create" /\ p.result = "Succeeded"
         THEN [p EXCEPT !.at = "PullStream"]
         ELSE [p EXCEPT !.at = "return", !.result = "false"]
    ELSE [p EXCEPT !.at = "return"]

\* One iteration of the loop of GetNextAppId (lines 108-121).
StepGetNextAppId(t) ==
    LET cur == NextCounter(last_application_id)
    IN  /\ pc[t].at = "GetNextAppId"
        /\ last_application_id' = cur
        /\ pc' = IF cur \notin DOMAIN app_map
                 THEN [pc EXCEPT ![t].app = Application(cur, pc[t].app_name),
                                 ![t].at = "CreateApplicationInternal"]
                 ELSE pc
        /\ UNCHANGED <<modules, module_map, app_map, origin_list, mutex,
                       notified>>
        /\ UNCHANGED callVars

\* CreateApplicationInternal up to the emplace (lines 264-281).
StepCreateApplicationInternal(t) ==
    /\ pc[t].at = "CreateApplicationInternal"
    /\ IF \E i \in DOMAIN app_map : app_map[i].name = pc[t].app.name
       THEN /\ pc' = [pc EXCEPT ![t] = Continue([pc[t] EXCEPT
                                                   !.result = "Exists"])]
            /\ UNCHANGED <<app_map, notified>>
       ELSE /\ app_map' = Emplace(app_map, pc[t].app)
            /\ notified' = Commit(t, "OnCreateApplication", pc[t].app)
            /\ pc' = [pc EXCEPT ![t].at = "OnCreateApplication", ![t].idx = 1]
    /\ UNCHANGED <<modules, module_map, last_application_id, origin_list,
                   mutex>>
    /\ UNCHANGED callVars

\* One iteration of the loop over _modules of CreateApplicationInternal, or
\* its end (lines 283-303).
StepOnCreateApplication(t) ==
    /\ pc[t].at = "OnCreateApplication"
    /\ IF pc[t].idx > Len(modules)
       THEN /\ pc' = [pc EXCEPT ![t] = Continue([pc[t] EXCEPT
                                                   !.result = "Succeeded"])]
            /\ UNCHANGED notified
       ELSE \E ret \in BOOLEAN :
                /\ notified' = Note(t, "OnCreateApplication", pc[t].app,
                                    modules[pc[t].idx].module)
                /\ pc' = IF ret
                         THEN [pc EXCEPT ![t].idx = @ + 1]
                         ELSE [pc EXCEPT ![t].at = "DeleteApplicationInternal"]
    /\ UNCHANGED <<modules, module_map, app_map, last_application_id,
                   origin_list, mutex>>
    /\ UNCHANGED callVars

\* DeleteApplicationInternal up to the erase (lines 337-349).  Erasing the
\* entry invalidates every reference to it that a caller of GetApplication
\* holds.
StepDeleteApplicationInternal(t) ==
    LET app_id == pc[t].app.id
    IN  /\ pc[t].at = "DeleteApplicationInternal"
        /\ IF app_id \notin DOMAIN app_map
           THEN /\ pc' = [pc EXCEPT ![t] = Continue([pc[t] EXCEPT
                                                       !.result = "NotExists"])]
                /\ UNCHANGED <<app_map, notified>>
           ELSE /\ app_map' = Erase(app_map, app_id)
                /\ notified' = Commit(t, "OnDeleteApplication", app_map[app_id])
                /\ pc' = [u \in Threads |->
                             IF u = t
                             THEN [pc[t] EXCEPT !.app = app_map[app_id],
                                                !.at = "OnDeleteApplication",
                                                !.idx = 1,
                                                !.result = "Succeeded"]
                             ELSE IF /\ pc[u].op \in {"GetApplication",
                                                      "GetApplicationById"}
                                     /\ pc[u].at \in {"return", "caller"}
                                     /\ pc[u].app.id = app_id
                             THEN [pc[u] EXCEPT !.erased = TRUE]
                             ELSE pc[u]]
        /\ UNCHANGED <<modules, module_map, last_application_id, origin_list,
                       mutex>>
        /\ UNCHANGED callVars

\* One iteration of the loop of NotifyModulesForDeleteEvent, or its end
\* (lines 317-332).
StepOnDeleteApplication(t) ==
    /\ pc[t].at = "OnDeleteApplication"
    /\ IF pc[t].idx > Len(modules)
       THEN /\ pc' = [pc EXCEPT ![t] = Continue(pc[t])]
            /\ UNCHANGED notified
       ELSE \E ret \in BOOLEAN :
                /\ notified' = Note(t, "OnDeleteApplication", pc[t].app,
                                    modules[pc[t].idx].module)
                /\ pc' = [pc EXCEPT ![t].idx = @ + 1,
                                    ![t].result = IF ret THEN @ ELSE "Failed"]
    /\ UNCHANGED <<modules, module_map, app_map, last_application_id,
                   origin_list, mutex>>
    /\ UNCHANGED callVars

\* RequestPullStreamForLocation up to the create (lines 491-520): the
\* rule, the provider and the existing application are looked up.
StepGetUrlListForLocation(t) ==
    LET found == GetUrlListForLocation(origin_list, pc[t].app_name,
                                       pc[t].stream_name)
        provider_module == GetProviderModuleForScheme(modules,
                                                      found.origin.scheme)
        existing == GetApplicationInternal(app_map, pc[t].app_name)
        p == [pc[t] EXCEPT !.seen = origin_list]
    IN  /\ pc[t].at = "GetUrlListForLocation"
        /\ pc' = [pc EXCEPT ![t] =
                     IF ~found.found \/ provider_module = NullModule
                     THEN [p EXCEPT !.at = "return", !.result = "false"]
                     ELSE IF IsValid(existing)
                     THEN [p EXCEPT !.at = "PullStream", !.app = existing,
                                    !.module = provider_module,
                                    !.phase = "exists", !.result = "Exists"]
                     ELSE [p EXCEPT !.at = "GetNextAppId",
                                    !.module = provider_module,
                                    !.phase = "create"]]
        /\ UNCHANGED <<modules, module_map, app_map, last_application_id,
                       origin_list, mutex, notified>>
        /\ UNCHANGED callVars

\* The provider's PullStream and what follows it (lines 534-561).
StepPullStream(t) ==
    /\ pc[t].at = "PullStream"
    /\ \E ret \in BOOLEAN :
           pc' = [pc EXCEPT ![t] =
                     IF ret
                     THEN [pc[t] EXCEPT !.at = "return", !.result = "true"]
                     ELSE IF pc[t].result = "Succeeded"
                     THEN [pc[t] EXCEPT !.at = "DeleteApplicationInternal",
                                        !.phase = "rollback"]
                     ELSE [pc[t] EXCEPT !.at = "return", !.result = "false"]]
    /\ UNCHANGED <<modules, module_map, app_map, last_application_id,
                   origin_list, mutex, notified>>
    /\ UNCHANGED callVars

\* GetApplicationInternal, by name or by id (lines 377-407): a reference to
\* the entry of the table, or to the invalid application.
StepGetApplicationInternal(t) ==
    /\ pc[t].at = "GetApplicationInternal"
    /\ pc' = [pc EXCEPT ![t].at = "return",
                        ![t].erased = FALSE,
                        ![t].app =
                            IF pc[t].op = "GetApplication"
                            THEN GetApplicationInternal(app_map, pc[t].app_name)
                            ELSE GetApplicationInternalById(app_map,
                                                            pc[t].app.id)]
    /\ UNCHANGED <<modules, module_map, app_map, last_application_id,
                   origin_list, mutex, notified>>
    /\ UNCHANGED callVars

\* The caller of GetApplication reads the descriptor through the reference
\* it was returned (it copies it, or calls GetId or GetName on it).
CallerReads(t) ==
    /\ pc[t].at = "caller"
    /\ pc' = [pc EXCEPT ![t] =
                 [Idle(pc[t].done + 1) EXCEPT
                     !.read = IF IsValid(pc[t].app) /\ pc[t].erased
                              THEN "erased entry"
                              ELSE "descriptor"]]
    /\ UNCHANGED <<modules, module_map, app_map, last_application_id,
                   origin_list, mutex, notified>>
    /\ UNCHANGED callVars

\* The body of RegisterModule under its lock (lines 52-76).
StepRegisterModule(t) ==
    LET r == RegisterModule(modules, module_map, pc[t].module)
    IN  /\ pc[t].at = "RegisterModule"
        /\ modules' = r.modules
        /\ module_map' = r.module_map
        /\ pc' = [pc EXCEPT ![t].at = "return",
                            ![t].result = Bool(r.returned)]
        /\ UNCHANGED <<app_map, last_application_id, origin_list, mutex,
                       notified>>
        /\ UNCHANGED callVars

\* The body of UnregisterModule under its lock (lines 89-103).
StepUnregisterModule(t) ==
    /\ pc[t].at = "UnregisterModule"
    /\ \E stale_type \in ModuleTypes :
           LET r == UnregisterModule(modules, module_map, pc[t].module,
                                     stale_type)
           IN  /\ modules' = r.modules
               /\ module_map' = r.module_map
               /\ pc' = [pc EXCEPT ![t].at = "return",
                                   ![t].result = Bool(r.returned)]
    /\ UNCHANGED <<app_map, last_application_id, origin_list, mutex, notified>>
    /\ UNCHANGED callVars

\* _origin_list.clear() (line 21).
StepClearOriginList(t) ==
    /\ pc[t].at = "clear"
    /\ origin_list' = <<>>
    /\ pc' = [pc EXCEPT ![t].at = "emplace_back", ![t].idx = 1]
    /\ UNCHANGED <<modules, module_map, app_map, last_application_id, mutex,
                   notified>>
    /\ UNCHANGED callVars

\* One iteration of the loop of PrepareOriginMap, or its end (lines 25-37).
StepEmplaceOrigin(t) ==
    /\ pc[t].at = "emplace_back"
    /\ IF pc[t].idx > Len(pc[t].origins)
       THEN /\ pc' = [pc EXCEPT ![t].at = "return"]
            /\ UNCHANGED origin_list
       ELSE /\ origin_list' = Append(origin_list,
                                     MakeOrigin(pc[t].origins[pc[t].idx]))
            /\ pc' = [pc EXCEPT ![t].idx = @ + 1]
    /\ UNCHANGED <<modules, module_map, app_map, last_application_id, mutex,
                   notified>>
    /\ UNCHANGED callVars

\* The steps of one thread.
ThreadStep(t) ==
    \/ Invoke(t)
    \/ Lock(t)
    \/ Return(t)
    \/ StepGetNextAppId(t)
    \/ StepCreateApplicationInternal(t)
    \/ StepOnCreateApplication(t)
    \/ StepDeleteApplicationInternal(t)
    \/ StepOnDeleteApplication(t)
    \/ StepGetUrlListForLocation(t)
    \/ StepPullStream(t)
    \/ StepGetApplicationInternal(t)
    \/ CallerReads(t)
    \/ StepRegisterModule(t)
    \/ StepUnregisterModule(t)
    \/ StepClearOriginList(t)
    \/ StepEmplaceOrigin(t)

ThreadNext == \E t \in Threads : ThreadStep(t)

\* The application tables the threads start on: none, one application, and
\* one application on every id GetNextAppId hands out; the counter is at
\* the id handed out last.
ThreadTables ==
    { [i \in MinApplicationId .. n |-> Application(i, <<NameChars[i + 1]>>)] :
          n \in {MinApplicationId - 1, MinApplicationId, MaxApplicationId - 1} }

\* The threads start on an orchestrator that has been set up: both modules
\* are registered, an origin map is loaded, and some applications exist.
ThreadInit ==
    /\ modules = <<Module("Provider", "ovt_provider"),
                   Module("Publisher", "publisher")>>
    /\ module_map = [type \in ModuleTypes |->
                        IF type = "Provider" THEN <<"ovt_provider">>
                        ELSE <<"publisher">>]
    /\ app_map \in ThreadTables
    /\ last_application_id =
           IF DOMAIN app_map = {} THEN MinApplicationId
           ELSE Cardinality(DOMAIN app_map) - 1
    /\ \E origins \in OriginConfigs :
           origin_list = AppendOrigins(<<>>, origins)
    /\ last = Returned("Orchestrator", NoName, NoName, InvalidApplicationId,
                       NullModule, "true")
    /\ calls = <<>>
    /\ entry = [app_map |-> <<>>, last_application_id |-> MinApplicationId]
    /\ pc = [t \in Threads |-> Idle(0)]
    /\ mutex = [m \in Mutexes |-> NoThread]
    /\ notified = NothingNotified

SpecThreads == ThreadInit /\ [][ThreadNext]_vars

\* Every thread that can take a step eventually takes one.
FairThreads == SpecThreads /\ \A t \in Threads : WF_vars(ThreadStep(t))

---------------------------------------------------------------------------
(* What the claims read from a returned call *)

RegisteredModules == {modules[i].module : i \in 1 .. Len(modules)}

\* The place of a registered module in registration order.
PositionOf(m) == CHOOSE i \in 1 .. Len(modules) : modules[i].module = m

\* How often the call made fn on module m with descriptor app_info.
CallCount(log, fn, m, app_info) ==
    Cardinality({i \in 1 .. Len(log) :
                    /\ log[i].fn = fn
                    /\ log[i].module = m
                    /\ log[i].app = app_info})

\* How often the call made fn on module m at all.
CallCountAny(log, fn, m) ==
    Cardinality({i \in 1 .. Len(log) : log[i].fn = fn /\ log[i].module = m})

\* Some module returned false from OnCreateApplication during the call.
CreateRejected ==
    \E i \in 1 .. Len(calls) :
        calls[i].fn = "OnCreateApplication" /\ ~calls[i].ret

RejectedAt ==
    CHOOSE i \in 1 .. Len(calls) :
        calls[i].fn = "OnCreateApplication" /\ ~calls[i].ret

NameInTable(map, app_name) == \E i \in DOMAIN map : map[i].name = app_name

---------------------------------------------------------------------------
(* Claims *)

\* C1: whenever a registered module's OnCreateApplication returns false
\* during a create (CreateApplication, or the name-only create of
\* RequestPullStream), the create returns Failed, whatever the modules'
\* OnDeleteApplication calls of the rollback return.
C1_RejectedCreateReturnsFailed ==
    /\ (last.op = "CreateApplication" /\ CreateRejected)
           => last.result = "Failed"
    /\ (last.op = "RequestPullStream" /\ CreateRejected)
           => last.create_result = "Failed"

\* C2: after CreateApplication returns Succeeded, GetApplication(name)
\* returns a valid descriptor with that name; after it returns Failed,
\* GetApplication(name) returns the invalid descriptor.
C2_GetApplicationAfterCreate ==
    last.op = "CreateApplication" =>
        LET got == GetApplicationInternal(app_map, last.app_name)
        IN  /\ last.result = "Succeeded"
                   => IsValid(got) /\ got.name = last.app_name
            /\ last.result = "Failed" => got = InvalidApplication

\* C3: when CreateApplication(A) returns Succeeded, every module registered
\* at the call received OnCreateApplication(A) exactly once during it.
C3_SucceededNotifiesEveryModuleOnce ==
    (last.op = "CreateApplication" /\ last.result = "Succeeded") =>
        \A m \in RegisteredModules :
            CallCount(calls, "OnCreateApplication", m,
                      Application(last.app_id, last.app_name)) = 1

\* C4: when a module rejects OnCreateApplication, no module registered
\* after it receives OnCreateApplication, the descriptor is removed from
\* the table, and then OnDeleteApplication is called once on every
\* registered module, also on those that never received or never
\* acknowledged the create.
C4_CreateRollback ==
    (last.op \in {"CreateApplication", "RequestPullStream"} /\ CreateRejected) =>
        LET k == RejectedAt
            app_info == calls[k].app
            rejecting == calls[k].module
        IN  /\ \A m \in RegisteredModules :
                   PositionOf(m) > PositionOf(rejecting)
                       => CallCountAny(calls, "OnCreateApplication", m) = 0
            /\ app_info.id \notin DOMAIN app_map
            /\ ~NameInTable(app_map, app_info.name)
            /\ \A m \in RegisteredModules :
                   /\ CallCount(calls, "OnDeleteApplication", m, app_info) = 1
                   /\ CallCountAny(calls, "OnDeleteApplication", m) = 1
            /\ \A i \in 1 .. Len(calls) :
                   calls[i].fn = "OnDeleteApplication"
                       => i > k /\ ~calls[i].in_table

\* C4 witness: of two registered modules the first rejected the create, so
\* the second got no create, and both got the delete.
C4_Witness ==
    /\ last.op = "CreateApplication"
    /\ Len(modules) = 2
    /\ Len(calls) = 3
    /\ calls[1].fn = "OnCreateApplication" /\ ~calls[1].ret
    /\ calls[2].fn = "OnDeleteApplication"
    /\ calls[3].fn = "OnDeleteApplication" /\ ~calls[3].ret

\* C5: in every reachable state the application table has no entry with
\* the invalid id, every entry is stored under its own id, and two distinct
\* entries have distinct ids and distinct names.
C5_TableInvariant ==
    /\ InvalidApplicationId \notin DOMAIN app_map
    /\ \A i \in DOMAIN app_map :
           /\ app_map[i].id = i
           /\ IsValid(app_map[i])
           /\ i \in MinApplicationId .. MaxApplicationId
    /\ \A i, j \in DOMAIN app_map :
           i # j => /\ app_map[i].id # app_map[j].id
                    /\ app_map[i].name # app_map[j].name

\* C5 witness: two applications are in the table after a RequestPullStream
\* created the second one.
C5_Witness ==
    /\ Cardinality(DOMAIN app_map) = 2
    /\ last.op = "RequestPullStream"
    /\ last.create_result = "Succeeded"
    /\ last.result = "true"

\* C6: CreateApplication for a name already in the table returns Exists,
\* calls OnCreateApplication and OnDeleteApplication on no module, and
\* leaves the table as it was.
C6_CreateExisting ==
    (last.op = "CreateApplication" /\ NameInTable(entry.app_map, last.app_name)) =>
        /\ last.result = "Exists"
        /\ calls = <<>>
        /\ app_map = entry.app_map

\* C6 witness: a create of an existing name returned with modules
\* registered.
C6_Witness ==
    /\ last.op = "CreateApplication"
    /\ NameInTable(entry.app_map, last.app_name)
    /\ Len(modules) = 2
    /\ Cardinality(DOMAIN app_map) = 2

\* C7: DeleteApplication of an id that is not in the table returns
\* NotExists and notifies no module; otherwise it removes the entry, calls
\* OnDeleteApplication on every registered module, in registration order
\* and also after one reported failure, and returns Failed if a module
\* reported failure and Succeeded otherwise.  In each case the id is absent
\* from the table afterwards.
C7_DeleteApplication ==
    last.op = "DeleteApplication" =>
        /\ last.app_id \notin DOMAIN app_map
        /\ IF last.app_id \notin DOMAIN entry.app_map
           THEN /\ last.result = "NotExists"
                /\ calls = <<>>
                /\ app_map = entry.app_map
           ELSE /\ DOMAIN app_map = DOMAIN entry.app_map \ {last.app_id}
                /\ \A i \in DOMAIN app_map : app_map[i] = entry.app_map[i]
                /\ Len(calls) = Len(modules)
                /\ \A i \in 1 .. Len(calls) :
                       /\ calls[i].fn = "OnDeleteApplication"
                       /\ calls[i].module = modules[i].module
                       /\ calls[i].app = entry.app_map[last.app_id]
                /\ last.result =
                       IF \E i \in 1 .. Len(calls) : ~calls[i].ret
                       THEN "Failed"
                       ELSE "Succeeded"

\* C7 witness: the first of two modules reported failure, the second was
\* still notified, and the delete returned Failed.
C7_Witness ==
    /\ last.op = "DeleteApplication"
    /\ last.result = "Failed"
    /\ Len(calls) = 2
    /\ ~calls[1].ret
    /\ calls[2].ret

\* C8: a CreateApplication of a new name that returns Succeeded, followed
\* by DeleteApplication of the created id, leaves the table as it was
\* before the create, and every registered module has received exactly one
\* OnCreateApplication and one OnDeleteApplication for that id, the create
\* first.
C8_CreateDeleteRoundTrip ==
    [][ ( /\ last.op = "CreateApplication"
          /\ last.result = "Succeeded"
          /\ ~NameInTable(entry.app_map, last.app_name)
          /\ last'.op = "DeleteApplication"
          /\ last'.app_id = last.app_id )
        => LET app_info == Application(last.app_id, last.app_name)
               both == calls \o calls'
           IN  /\ app_map' = entry.app_map
               /\ \A m \in RegisteredModules :
                      /\ CallCount(both, "OnCreateApplication", m, app_info) = 1
                      /\ CallCount(both, "OnDeleteApplication", m, app_info) = 1
                      /\ \A i, j \in 1 .. Len(both) :
                             ( /\ both[i].module = m
                               /\ both[j].module = m
                               /\ both[i].fn = "OnCreateApplication"
                               /\ both[j].fn = "OnDeleteApplication" )
                             => i < j
      ]_vars

\* C9: whenever RequestPullStream returns false the table holds the
\* applications it held before the call.  With no matching rule or no
\* provider for the rule's scheme nothing is called and nothing changes; an
\* application created for this pull whose PullStream returned false is
\* removed again and every module receives its OnDeleteApplication; an
\* application that existed before stays and no delete is sent.
C9_FailedPullLeavesNoOrphan ==
    (last.op = "RequestPullStream" /\ last.result = "false") =>
        LET found == GetUrlListForLocation(origin_list, last.app_name,
                                           last.stream_name)
            provider == GetProviderModuleForScheme(modules, found.origin.scheme)
            pulls == {i \in 1 .. Len(calls) : calls[i].fn = "PullStream"}
        IN  /\ app_map = entry.app_map
            /\ (~found.found \/ provider = NullModule)
                   => /\ calls = <<>>
                      /\ last_application_id = entry.last_application_id
            /\ ( /\ ~NameInTable(entry.app_map, last.app_name)
                 /\ pulls # {} )
                   => /\ ~NameInTable(app_map, last.app_name)
                      /\ \A i \in pulls :
                             /\ ~calls[i].ret
                             /\ calls[i].app.id \notin DOMAIN app_map
                             /\ \A m \in RegisteredModules :
                                    CallCount(calls, "OnDeleteApplication", m,
                                              calls[i].app) = 1
            /\ NameInTable(entry.app_map, last.app_name)
                   => /\ NameInTable(app_map, last.app_name)
                      /\ \A i \in 1 .. Len(calls) :
                             calls[i].fn # "OnDeleteApplication"

\* C9 witness: the pull created the application (every module accepted
\* it), PullStream returned false, and the application was deleted again
\* with both modules registered.
C9_Witness ==
    /\ last.op = "RequestPullStream"
    /\ last.result = "false"
    /\ last.create_result = "Succeeded"
    /\ ~CreateRejected
    /\ Len(modules) = 2
    /\ Len(calls) = 5
    /\ calls[3].fn = "PullStream"
    /\ calls[3].in_table
    /\ Cardinality(DOMAIN app_map) = 1

\* C10: in RequestPullStream, when the application does not exist and some
\* module rejects OnCreateApplication in the name-only create, the call
\* returns false and the provider's PullStream is never invoked.
C10_RejectedCreateSkipsPull ==
    ( /\ last.op = "RequestPullStream"
      /\ ~NameInTable(entry.app_map, last.app_name)
      /\ CreateRejected )
    => /\ last.result = "false"
       /\ \A i \in 1 .. Len(calls) : calls[i].fn # "PullStream"

\* The location RequestPullStream resolves: "/" + app + "/" + stream.
LocationOf(app_name, stream_name) ==
    <<"/">> \o app_name \o <<"/">> \o stream_name

\* p is a byte-prefix of s.
IsBytePrefix(p, s) ==
    Len(p) <= Len(s) /\ \A k \in 1 .. Len(p) : s[k] = p[k]

\* s with its first n bytes removed.
DropFront(s, n) == [k \in 1 .. Len(s) - n |-> s[k + n]]

\* What the claim says the resolution of (app_name, stream_name) against
\* the rule list is.
ResolvesAsClaimed(origins, app_name, stream_name, r) ==
    LET location == LocationOf(app_name, stream_name)
        matches == {i \in 1 .. Len(origins) :
                       IsBytePrefix(origins[i].location, location)}
    IN  /\ r.found => r.url_list # <<>>
        /\ IF matches = {}
           THEN ~r.found
           ELSE LET rule == origins[Min(matches)]
                    suffix == DropFront(location, Len(rule.location))
                IN  IF rule.url_list = <<>>
                    THEN ~r.found
                    ELSE /\ r.found
                         /\ r.origin = rule
                         /\ Len(r.url_list) = Len(rule.url_list)
                         /\ \A k \in 1 .. Len(rule.url_list) :
                                r.url_list[k] =
                                    rule.scheme \o <<":", "/", "/">>
                                    \o rule.url_list[k] \o suffix

\* C11: GetUrlListForLocation(app, stream) selects the first rule, in
\* configuration order, whose location is a byte-prefix of
\* "/" + app + "/" + stream; with at least one URL it returns that rule and
\* scheme + "://" + url + suffix for each URL in order; it returns nothing
\* when no rule is a prefix or the selected rule has no URL, and never a
\* rule with an empty list.  A RequestPullStream that reached PullStream
\* passed it exactly that list.
C11_GetUrlListForLocation ==
    /\ \A app_name \in AppNames, stream_name \in StreamNames :
           ResolvesAsClaimed(origin_list, app_name, stream_name,
               GetUrlListForLocation(origin_list, app_name, stream_name))
    /\ last.op = "RequestPullStream" =>
           \A i \in 1 .. Len(calls) :
               calls[i].fn = "PullStream" =>
                   ResolvesAsClaimed(origin_list, last.app_name,
                       last.stream_name,
                       [found |-> TRUE,
                        origin |-> GetUrlListForLocation(origin_list,
                                       last.app_name, last.stream_name).origin,
                        url_list |-> calls[i].url_list])

\* C11 witness: a pull of "/a/so" resolved against the rule "/" with two
\* URLs, and PullStream got both with the suffix "a/so" appended.
C11_Witness ==
    /\ last.op = "RequestPullStream"
    /\ last.app_name = <<"a">>
    /\ last.stream_name = <<"s", "o">>
    /\ \E i \in 1 .. Len(calls) :
           /\ calls[i].fn = "PullStream"
           /\ calls[i].url_list =
                  << <<"o", "v", "t", ":", "/", "/", "h", "a", "/", "s", "o">>,
                     <<"o", "v", "t", ":", "/", "/", "k", "a", "/", "s", "o">> >>

\* The modules of the flat registration-order sequence.
FlatView(mods) == {mods[i].module : i \in 1 .. Len(mods)}

\* The modules of the per-kind lists.
KindView(mmap) ==
    UNION {{mmap[type][i] : i \in 1 .. Len(mmap[type])} : type \in DOMAIN mmap}

\* No module is twice in the flat sequence, and none is twice in the
\* per-kind lists.
NoDuplicateModule(mods, mmap) ==
    /\ \A i, j \in 1 .. Len(mods) : mods[i].module = mods[j].module => i = j
    /\ \A t1, t2 \in DOMAIN mmap :
           \A i \in 1 .. Len(mmap[t1]), j \in 1 .. Len(mmap[t2]) :
               mmap[t1][i] = mmap[t2][j] => t1 = t2 /\ i = j

\* C12: after every RegisterModule and UnregisterModule call the flat
\* sequence and the per-kind lists hold the same set of modules and no
\* module is in either more than once; a call that returns false (null or
\* duplicate Register, Unregister of an absent module) changes neither.
C12_RegistryViewsAgree ==
    [][ last'.op \in {"RegisterModule", "UnregisterModule"} =>
           /\ FlatView(modules') = KindView(module_map')
           /\ NoDuplicateModule(modules', module_map')
           /\ last'.result = "false" => UNCHANGED <<modules, module_map>>
      ]_vars

\* C15: CreateApplication allocates an id only after the scan for the name
\* found none: a CreateApplication that returns Exists leaves the id
\* counter as it was.
C15_ExistsLeavesCounter ==
    (last.op = "CreateApplication" /\ last.result = "Exists") =>
        last_application_id = entry.last_application_id

\* The allocator as C17 describes it: the counter advances by one, wraps to
\* MinApplicationId when it reaches the invalid sentinel, and goes on while
\* the id is occupied (at most fuel more times).
RECURSIVE CounterAsClaimed(_, _, _)
CounterAsClaimed(counter, map, fuel) ==
    LET inc == (counter + 1) % IdModulus
        cur == IF inc = InvalidApplicationId THEN MinApplicationId ELSE inc
    IN  IF cur \notin DOMAIN map \/ fuel = 0
        THEN cur
        ELSE CounterAsClaimed(cur, map, fuel - 1)

\* C17: an allocation advances the counter by one per step and wraps to
\* MinApplicationId only at the invalid sentinel, so MaxApplicationId is
\* handed out before the wrap; DeleteApplication and a rollback leave the
\* counter alone, so a deleted application's id is not handed out again
\* before the counter has gone through the rest of the range.
C17_CounterArithmetic ==
    /\ last.op = "CreateApplication" =>
           /\ last_application_id =
                  CounterAsClaimed(entry.last_application_id, entry.app_map,
                                   IdModulus)
           /\ last.app_id = last_application_id
    /\ (last.op = "RequestPullStream" /\ last.create_result # "None"
            /\ ~NameInTable(entry.app_map, last.app_name)) =>
           last_application_id =
               CounterAsClaimed(entry.last_application_id, entry.app_map,
                                IdModulus)
    /\ last.op = "DeleteApplication" =>
           last_application_id = entry.last_application_id

\* C20: PullStream is only invoked with a descriptor that is in the
\* application table at the moment of the call, and whenever
\* RequestPullStream(app, stream) returns true the table holds a valid
\* application named app.
C20_PullStreamOnLiveApplication ==
    last.op = "RequestPullStream" =>
        /\ \A i \in 1 .. Len(calls) :
               calls[i].fn = "PullStream" => calls[i].in_table
        /\ last.result = "true" =>
               LET got == GetApplicationInternal(app_map, last.app_name)
               IN  IsValid(got) /\ got.name = last.app_name

\* C16: for every counter value and every table of at most
\* MaxApplicationId applications, GetNextAppId returns, and the id it
\* returns lies in [MinApplicationId, MaxApplicationId], is not the invalid
\* sentinel and is not a key of the table.
C16_GetNextAppIdTerminates ==
    ( /\ last.op = "GetNextAppId"
      /\ Cardinality(DOMAIN entry.app_map) <= MaxApplicationId )
    => /\ last.result = "returned"
       /\ last.app_id \in MinApplicationId .. MaxApplicationId
       /\ last.app_id # InvalidApplicationId
       /\ last.app_id \notin DOMAIN entry.app_map

\* Thread t waits for a mutex that thread u owns.
WaitsFor(t, u) ==
    /\ pc[t].at = "lock"
    /\ u # t
    /\ mutex[LocksOf(pc[t].op)[pc[t].held + 1]] = u

\* Some threads wait on each other's mutexes in a cycle.
WaitCycle ==
    \E S \in SUBSET Threads :
        S # {} /\ \A t \in S : \E u \in S : WaitsFor(t, u)

\* L_modules, then L_apps, then L_origins.
LockRank(m) ==
    CASE m = "_modules_mutex" -> 1
      [] m = "_app_map_mutex" -> 2
      [] m = "_origin_map_mutex" -> 3

\* Every mutex a thread is about to take ranks after those it holds.
LocksTakenInOrder ==
    \A t \in Threads :
        pc[t].at = "lock" =>
            \A m \in Mutexes :
                mutex[m] = t =>
                    LockRank(m) < LockRank(LocksOf(pc[t].op)[pc[t].held + 1])

\* Thread t is inside a public operation.
InCall(t) == pc[t].at \notin {"idle", "caller"}

\* No threads wait in a cycle and the mutexes are taken in rank order.
NoDeadlock == ~WaitCycle /\ LocksTakenInOrder

\* C13: every public operation takes its mutexes in the order L_modules,
\* L_apps, L_origins, so no threads ever wait on each other's mutexes in a
\* cycle, and under fair scheduling (module callbacks return) every
\* operation a thread has entered eventually returns.
C13_DeadlockFreedom ==
    /\ []NoDeadlock
    /\ \A t \in Threads : InCall(t) ~> ~InCall(t)

\* The modules in registration order.
RegistrationOrder == [i \in 1 .. Len(modules) |-> modules[i].module]

\* C14: with concurrent CreateApplication, DeleteApplication and
\* RequestPullStream calls, every OnCreateApplication/OnDeleteApplication
\* is sent by the thread that changed the table last, for that change (so
\* the notifications of two operations never interleave and arrive in the
\* order of the table changes), and within one create or delete the modules
\* are notified in registration order.
C14_NotificationOrder ==
    /\ \A k \in 1 .. Len(notified.notes) :
           /\ notified.notes[k].thread = notified.thread
           /\ notified.notes[k].fn = notified.fn
           /\ notified.notes[k].app = notified.app
           /\ k <= Len(notified.order)
           /\ notified.notes[k].module = notified.order[k]
    /\ \A t \in Threads :
           pc[t].at \in {"OnCreateApplication", "OnDeleteApplication"} =>
               /\ notified.thread = t
               /\ notified.order = RegistrationOrder
               /\ Len(notified.notes) = pc[t].idx - 1

\* C14 witness: one thread is in the delete notifications of its rollback,
\* having notified the first module, while the other thread is inside
\* DeleteApplication, waiting for a mutex.
C14_Witness ==
    \E t, u \in Threads :
        /\ pc[t].op = "CreateApplication"
        /\ pc[t].at = "OnDeleteApplication"
        /\ Len(notified.notes) = 1
        /\ pc[u].op = "DeleteApplication"
        /\ pc[u].at = "lock"

\* C18: GetApplication hands the caller a descriptor by value: after the
\* call has returned, what the caller holds is not invalidated by a
\* concurrent DeleteApplication or rollback, and the caller never reads a
\* table entry that was erased.
C18_GetApplicationByValue ==
    \A t \in Threads :
        /\ pc[t].at = "caller" => ~pc[t].erased
        /\ pc[t].read # "erased entry"

\* The rule lists a PrepareOriginMap builds.
CompleteOriginLists ==
    {[i \in 1 .. Len(o) |-> MakeOrigin(o[i])] : o \in OriginConfigs}

\* C19: PrepareOriginMap(O) leaves the rule list holding the entries of O
\* in configuration order, and a concurrent RequestPullStream resolves its
\* location against a complete list, the old or the new one, never against
\* a cleared or partly filled one.
C19_OriginMapReplacedAtomically ==
    \A t \in Threads :
        /\ (pc[t].op = "PrepareOriginMap" /\ pc[t].at = "return") =>
               origin_list = [i \in 1 .. Len(pc[t].origins) |->
                                 MakeOrigin(pc[t].origins[i])]
        /\ ( /\ pc[t].op = "RequestPullStream"
             /\ pc[t].at \notin {"lock", "GetUrlListForLocation"} ) =>
               pc[t].seen \in CompleteOriginLists

\* C19 witness: one thread has appended the last of three entries in
\* PrepareOriginMap and is about to return, while the other is in
\* RequestPullStream, holds _modules_mutex and _app_map_mutex and waits for
\* _origin_map_mutex.
C19_Witness ==
    \E t, u \in Threads :
        /\ pc[u].op = "PrepareOriginMap"
        /\ pc[u].at = "return"
        /\ Len(origin_list) = 3
        /\ pc[t].op = "RequestPullStream"
        /\ pc[t].at = "lock"
        /\ pc[t].held = 2

===========================================================================
